---- MODULE Spec2Model ----
(***************************************************************************)
(* hippopt: OptiSolver (src/src/hippopt/base/opti_solver.py).              *)
(*                                                                         *)
(* The three tree walks of OptiSolver (symbol generation, solution         *)
(* extraction, guess injection) and the session API around them, modelled  *)
(* over an explicit object store so that aliasing, copying and in-place    *)
(* writes are visible.  The casadi Opti object is an external collaborator *)
(* and is modelled by the calls it receives and the state those calls set. *)
(***************************************************************************)
EXTENDS Integers, Sequences, FiniteSets, TLC

(***************************************************************************)
(* Values.  Every Python value is a record of one layout:                  *)
(*   k  = "none"  None                                                     *)
(*        "arr"   numpy array of shape sh carrying the numbers id          *)
(*        "mx"    casadi symbol number id, of shape sh                     *)
(*        "val"   numeric value read back for symbol id                    *)
(*        "plain" any other untagged datum (payload id)                    *)
(*        "ref"   reference to the mutable object stored at address id     *)
(*        "rec"   a dataclass instance, fields fs                          *)
(*        "list"  a Python list, elements es                               *)
(* A tree is a value whose fields and elements are trees; an object of the *)
(* store is a "rec" or "list" whose fields and elements are cells (leaf    *)
(* values or "ref").                                                       *)
(***************************************************************************)
Leaf(k, sh, id) == [k |-> k, sh |-> sh, id |-> id, fs |-> <<>>, es |-> <<>>]
None == Leaf("none", <<>>, 0)
Arr(sh, id) == Leaf("arr", sh, id)
MX(sh, id) == Leaf("mx", sh, id)
Val(sh, id) == Leaf("val", sh, id)
Plain(id) == Leaf("plain", <<>>, id)
Ref(a) == Leaf("ref", <<>>, a)
Rec(fs) == [k |-> "rec", sh |-> <<>>, id |-> 0, fs |-> fs, es |-> <<>>]
List(es) == [k |-> "list", sh |-> <<>>, id |-> 0, fs |-> <<>>, es |-> es]
Field(name, tag, v) == [name |-> name, tag |-> tag, v |-> v]

\* isinstance(c, OptimizationObject) / isinstance(c, list) on a cell
IsRec(heap, c) == c.k = "ref" /\ heap[c.id].k = "rec"
IsList(heap, c) == c.k = "ref" /\ heap[c.id].k = "list"
Elems(heap, c) == heap[c.id].es
Fields(heap, c) == heap[c.id].fs

\* hasattr(c, name) and c.__getattribute__(name)
FieldIndex(heap, c, name) == {i \in DOMAIN Fields(heap, c) : Fields(heap, c)[i].name = name}
HasAttr(heap, c, name) == IsRec(heap, c) /\ FieldIndex(heap, c, name) # {}
GetAttr(heap, c, name) == Fields(heap, c)[CHOOSE i \in FieldIndex(heap, c, name) : TRUE].v

\* the tree stored under a cell
RECURSIVE TreeOf(_, _)
TreeOf(heap, c) ==
    IF c.k # "ref" THEN c
    ELSE LET o == heap[c.id]
         IN IF o.k = "rec"
            THEN Rec([i \in DOMAIN o.fs |-> [o.fs[i] EXCEPT !.v = TreeOf(heap, @)]])
            ELSE List([i \in DOMAIN o.es |-> TreeOf(heap, o.es[i])])

\* the addresses of the objects reachable from a cell
RECURSIVE Reach(_, _)
Reach(heap, c) ==
    IF c.k # "ref" THEN {}
    ELSE LET o == heap[c.id]
         IN {c.id} \cup UNION {Reach(heap, o.fs[i].v) : i \in DOMAIN o.fs}
                   \cup UNION {Reach(heap, o.es[i]) : i \in DOMAIN o.es}

(***************************************************************************)
(* The state a call threads through its steps: the object store, the       *)
(* session fields it writes, the solver's symbols and per-symbol guess     *)
(* state, the solver calls made so far (calls), the invocations of the     *)
(* recursive guess walk (visits), the pending exception (err) and the      *)
(* value just returned (ret).                                              *)
(***************************************************************************)
Raise(st, e) == [st EXCEPT !.err = e]
Failed(st) == st.err # "none"
Call(fn, h, sh, v) == [fn |-> fn, h |-> h, sh |-> sh, v |-> v]

\* construction of a fresh object holding cells
NewObject(st, o) == [st EXCEPT !.heap = Append(@, o), !.ret = Ref(Len(st.heap) + 1)]

\* construction of the objects of a tree; ret is the cell of its root
RECURSIVE Alloc(_, _)
RECURSIVE AllocFields(_, _, _, _)
RECURSIVE AllocElems(_, _, _, _)
AllocFields(st, fs, i, acc) ==
    IF i > Len(fs) THEN [st EXCEPT !.ret = acc]
    ELSE LET s1 == Alloc(st, fs[i].v)
         IN AllocFields(s1, fs, i + 1, Append(acc, [fs[i] EXCEPT !.v = s1.ret]))
AllocElems(st, es, i, acc) ==
    IF i > Len(es) THEN [st EXCEPT !.ret = acc]
    ELSE LET s1 == Alloc(st, es[i])
         IN AllocElems(s1, es, i + 1, Append(acc, s1.ret))
Alloc(st, t) ==
    IF t.k = "rec" THEN LET s1 == AllocFields(st, t.fs, 1, <<>>) IN NewObject(s1, Rec(s1.ret))
    ELSE IF t.k = "list" THEN LET s1 == AllocElems(st, t.es, 1, <<>>) IN NewObject(s1, List(s1.ret))
    ELSE [st EXCEPT !.ret = t]

\* copy.deepcopy(c): fresh objects for everything under c
deepcopy(st, c) == Alloc(st, TreeOf(st.heap, c))

\* obj.__setattr__(field, v) and lst[i] = v, on the object at address a
SetField(st, a, i, v) == [st EXCEPT !.heap[a].fs[i].v = v]
SetElem(st, a, i, v) == [st EXCEPT !.heap[a].es[i] = v]

(***************************************************************************)
(* The solver (cs.Opti): symbols are numbered in creation order.           *)
(***************************************************************************)
SolverCreate(st, fn, sh) ==
    LET h == Len(st.sym) + 1
    IN [st EXCEPT !.sym = Append(@, [fn |-> fn, sh |-> sh]),
                  !.guess = Append(@, 0),
                  !.calls = Append(@, Call(fn, h, sh, 0)),
                  !.ret = MX(sh, h)]
SolverSet(st, fn, variable, value) ==
    [st EXCEPT !.guess[variable.id] = value.id,
               !.calls = Append(@, Call(fn, variable.id, value.sh, value.id))]
SolverValue(st, el) ==
    [st EXCEPT !.calls = Append(@, Call("value", el.id, el.sh, 0)),
               !.ret = Val(el.sh, el.id)]

(***************************************************************************)
(* Symbol generation                                                       *)
(***************************************************************************)
\* np.expand_dims(value, axis=1) on an array of fewer than two dimensions
expand_dimsRow(sh) == IF Len(sh) < 2 THEN <<1, sh[1]>> ELSE sh
expand_dims(sh) == IF Len(sh) < 2 THEN <<sh[1], 1>> ELSE sh

_generate_opti_object(st, storage_type, value) ==
    IF value.k = "none" THEN Raise(st, "MissingValue")
    ELSE IF value.k = "arr" /\ Len(value.sh) > 2 THEN Raise(st, "UnsupportedRank")
    ELSE IF value.k = "arr" /\ Len(value.sh) = 0 THEN Raise(st, "AxisError")
    ELSE IF storage_type \notin {"Variable", "Parameter"} THEN Raise(st, "UnsupportedStorage")
    ELSE IF value.k # "arr" THEN Raise(st, "AttributeError")
    ELSE SolverCreate(st, IF storage_type = "Variable" THEN "variable" ELSE "parameter",
                      expand_dims(value.sh))

\* output = copy.deepcopy(input_structure)
CopyInputNoCopy(st, input_structure) == [st EXCEPT !.ret = input_structure]
CopyInput(st, input_structure) == deepcopy(st, input_structure)

\* self._variables = output
RegisterOnce(st, output) == IF st.vars.k = "none" THEN [st EXCEPT !.vars = output] ELSE st
RegisterVariables(st, output) == [st EXCEPT !.vars = output]

RECURSIVE generate_optimization_objects(_, _)
RECURSIVE GenerateLeaves(_, _, _, _, _)
RECURSIVE GenerateFields(_, _, _)
RECURSIVE GenerateElems(_, _, _)

\* the loop over value_list
GenerateLeaves(st, storage_type, value_list, i, output_value) ==
    IF Failed(st) \/ i > Len(value_list) THEN [st EXCEPT !.ret = output_value]
    ELSE LET s1 == _generate_opti_object(st, storage_type, value_list[i])
         IN GenerateLeaves(s1, storage_type, value_list, i + 1,
                           IF Failed(s1) THEN output_value ELSE Append(output_value, s1.ret))

\* the loop over dataclasses.fields(output), from field i on
GenerateFields(st, output, i) ==
    IF Failed(st) \/ i > Len(st.heap[output].fs) THEN st
    ELSE LET field == st.heap[output].fs[i]
             composite_value == field.v
             is_list == IsList(st.heap, composite_value)
             list_of_optimization_objects ==
                 is_list /\ \A j \in DOMAIN Elems(st.heap, composite_value) :
                               \/ IsRec(st.heap, Elems(st.heap, composite_value)[j])
                               \/ IsList(st.heap, Elems(st.heap, composite_value)[j])
         IN IF IsRec(st.heap, composite_value) \/ list_of_optimization_objects
            THEN LET s1 == generate_optimization_objects(st, composite_value)
                 IN GenerateFields(IF Failed(s1) THEN s1 ELSE SetField(s1, output, i, s1.ret),
                                   output, i + 1)
            ELSE IF field.tag # "none"
            THEN LET value_list == IF is_list THEN Elems(st.heap, composite_value)
                                              ELSE <<composite_value>>
                     s1 == GenerateLeaves(st, field.tag, value_list, 1, <<>>)
                     s2 == IF is_list THEN NewObject(s1, List(s1.ret))
                                      ELSE [s1 EXCEPT !.ret = s1.ret[1]]
                 IN GenerateFields(IF Failed(s1) THEN s1 ELSE SetField(s2, output, i, s2.ret),
                                   output, i + 1)
            ELSE GenerateFields(st, output, i + 1)

_generate_objects_from_instance(st, input_structure) ==
    LET s0 == CopyInput(st, input_structure)
        s1 == GenerateFields(s0, s0.ret.id, 1)
    IN IF Failed(s1) THEN s1
       ELSE [RegisterVariables(s1, s0.ret) EXCEPT !.ret = s0.ret]

\* the loop output[i] = generate_optimization_objects(output[i])
GenerateElems(st, output, i) ==
    IF Failed(st) \/ i > Len(st.heap[output].es) THEN st
    ELSE LET s1 == generate_optimization_objects(st, st.heap[output].es[i])
         IN GenerateElems(IF Failed(s1) THEN s1 ELSE SetElem(s1, output, i, s1.ret),
                          output, i + 1)

_generate_objects_from_list(st, input_structure) ==
    IF ~IsList(st.heap, input_structure) THEN Raise(st, "AssertionError")
    ELSE LET s0 == CopyInput(st, input_structure)
             s1 == GenerateElems(s0, s0.ret.id, 1)
         IN IF Failed(s1) THEN s1
            ELSE [RegisterVariables(s1, s0.ret) EXCEPT !.ret = s0.ret]

generate_optimization_objects(st, input_structure) ==
    IF IsRec(st.heap, input_structure)
    THEN _generate_objects_from_instance(st, input_structure)
    ELSE _generate_objects_from_list(st, input_structure)

(***************************************************************************)
(* Solution extraction                                                     *)
(***************************************************************************)
\* output = copy.deepcopy(variables)
CopyVariables(st, variables) == deepcopy(st, variables)

\* np.array(self._opti_solution.value(el))
ReadValueSkipped(st, el) == [st EXCEPT !.ret = el]
ReadValue(st, el) == SolverValue(st, el)

RECURSIVE _generate_solution_output(_, _)
RECURSIVE SolutionLeaves(_, _, _, _)
RECURSIVE SolutionElems(_, _, _, _)
RECURSIVE SolutionFields(_, _, _, _)

\* the loop for el in var
SolutionLeaves(st, var, i, output_val) ==
    IF Failed(st) \/ i > Len(var) THEN [st EXCEPT !.ret = output_val]
    ELSE LET s1 == ReadValue(st, var[i])
         IN SolutionLeaves(s1, var, i + 1, Append(output_val, s1.ret))

\* the loop output[i] = self._generate_solution_output(variables[i])
SolutionElems(st, variables, output, i) ==
    IF Failed(st) \/ i > Len(st.heap[variables].es) THEN st
    ELSE LET s1 == _generate_solution_output(st, st.heap[variables].es[i])
         IN SolutionElems(IF Failed(s1) THEN s1 ELSE SetElem(s1, output, i, s1.ret),
                          variables, output, i + 1)

\* the loop over dataclasses.fields(variables), from field i on
SolutionFields(st, variables, output, i) ==
    IF Failed(st) \/ i > Len(st.heap[variables].fs) THEN st
    ELSE LET field == st.heap[variables].fs[i]
             var == field.v
             is_list == IsList(st.heap, var)
             list_of_optimization_objects ==
                 is_list /\ \A j \in DOMAIN Elems(st.heap, var) :
                               \/ IsRec(st.heap, Elems(st.heap, var)[j])
                               \/ IsList(st.heap, Elems(st.heap, var)[j])
         IN IF field.tag \in {"Variable", "Parameter"}
            THEN LET s1 == IF is_list THEN SolutionLeaves(st, Elems(st.heap, var), 1, <<>>)
                                      ELSE ReadValue(st, var)
                     s2 == IF is_list THEN NewObject(s1, List(s1.ret)) ELSE s1
                 IN SolutionFields(IF Failed(s1) THEN s1 ELSE SetField(s2, output, i, s2.ret),
                                   variables, output, i + 1)
            ELSE IF IsRec(st.heap, var) \/ list_of_optimization_objects
            THEN LET s1 == _generate_solution_output(st, var)
                 IN SolutionFields(IF Failed(s1) THEN s1 ELSE SetField(s1, output, i, s1.ret),
                                   variables, output, i + 1)
            ELSE SolutionFields(st, variables, output, i + 1)

_generate_solution_output(st, variables) ==
    LET s0 == CopyVariables(st, variables)
    IN IF IsList(st.heap, variables)
       THEN LET s1 == SolutionElems(s0, variables.id, s0.ret.id, 1)
            IN IF Failed(s1) THEN s1 ELSE [s1 EXCEPT !.ret = s0.ret]
       ELSE IF ~IsRec(st.heap, variables)
       THEN Raise(s0, "TypeError")
       ELSE LET s1 == SolutionFields(s0, variables.id, s0.ret.id, 1)
            IN IF Failed(s1) THEN s1 ELSE [s1 EXCEPT !.ret = s0.ret]

(***************************************************************************)
(* Guess injection                                                         *)
(***************************************************************************)
_set_opti_guessSwapped(st, storage_type, variable, value) ==
    IF storage_type = "Variable" THEN SolverSet(st, "set_value", variable, value)
    ELSE IF storage_type = "Parameter" THEN SolverSet(st, "set_initial", variable, value)
    ELSE st
_set_opti_guess(st, storage_type, variable, value) ==
    IF storage_type = "Variable" THEN SolverSet(st, "set_initial", variable, value)
    ELSE IF storage_type = "Parameter" THEN SolverSet(st, "set_value", variable, value)
    ELSE st

\* len(corresponding_variable) != len(initial_guess), the raise condition of a sequence
SequenceLengthErrorShorterOnly(expected, input) == expected > input
SequenceLengthError(expected, input) == expected # input

\* len(corresponding_value) == len(guess), the raise condition of a storage list
StorageListLengthError(expected, input) == expected = input

\* base_name + "[" + str(i) + "]." and base_name + field.name + "."
IndexName(i) == "[" \o ToString(i) \o "]"
Visit(st, initial_guess, corresponding_variable, base_name) ==
    [st EXCEPT !.visits = Append(@,
        [path |-> base_name,
         gk |-> IF initial_guess.k = "ref" THEN st.heap[initial_guess.id].k ELSE initial_guess.k,
         vk |-> IF corresponding_variable.k = "ref" THEN st.heap[corresponding_variable.id].k
                ELSE corresponding_variable.k,
         n |-> IF IsList(st.heap, initial_guess) THEN Len(Elems(st.heap, initial_guess)) ELSE 0,
         m |-> IF IsList(st.heap, corresponding_variable)
               THEN Len(Elems(st.heap, corresponding_variable)) ELSE 0])]

\* one storage leaf: the array test, the shape test and the solver call
GuessLeaf(st, storage_type, guess, corresponding_value) ==
    IF guess.k # "arr" THEN Raise(st, "NotArray")
    ELSE IF Len(guess.sh) = 0 THEN Raise(st, "IndexError")
    ELSE IF corresponding_value.k # "mx" THEN Raise(st, "AttributeError")
    ELSE LET input_shape == IF Len(guess.sh) > 1 THEN guess.sh ELSE <<guess.sh[1], 1>>
         IN IF corresponding_value.sh # input_shape THEN Raise(st, "ShapeMismatch")
            ELSE _set_opti_guess(st, storage_type, corresponding_value, guess)

RECURSIVE _set_initial_guess_internal(_, _, _, _)
RECURSIVE GuessLeaves(_, _, _, _, _)
RECURSIVE GuessElems(_, _, _, _, _)
RECURSIVE GuessFields(_, _, _, _, _)

\* the loop for i in range(len(corresponding_value)) of a storage list
GuessLeaves(st, storage_type, guess, corresponding_value, i) ==
    IF Failed(st) \/ i > Len(corresponding_value) THEN st
    ELSE IF i > Len(guess) THEN Raise(st, "IndexError")
    ELSE GuessLeaves(GuessLeaf(st, storage_type, guess[i], corresponding_value[i]),
                     storage_type, guess, corresponding_value, i + 1)

\* the loop for i in range(len(corresponding_variable)) of a sequence
GuessElems(st, initial_guess, corresponding_variable, base_name, i) ==
    IF Failed(st) \/ i > Len(Elems(st.heap, corresponding_variable)) THEN st
    ELSE GuessElems(_set_initial_guess_internal(st, Elems(st.heap, initial_guess)[i],
                                                Elems(st.heap, corresponding_variable)[i],
                                                Append(base_name, IndexName(i - 1))),
                    initial_guess, corresponding_variable, base_name, i + 1)

\* the loop over dataclasses.fields(initial_guess), from field i on
GuessFields(st, initial_guess, corresponding_variable, base_name, i) ==
    IF Failed(st) \/ i > Len(Fields(st.heap, initial_guess)) THEN st
    ELSE LET field == Fields(st.heap, initial_guess)[i]
             guess == field.v
             s1 == IF guess.k = "none" THEN st
                   ELSE IF field.tag # "none"
                   THEN IF ~HasAttr(st.heap, corresponding_variable, field.name)
                        THEN Raise(st, "UnknownField")
                        ELSE LET corresponding_value ==
                                     GetAttr(st.heap, corresponding_variable, field.name)
                             IN IF IsList(st.heap, corresponding_value)
                                THEN IF ~IsList(st.heap, guess)
                                     THEN Raise(st, "StructureMismatch")
                                     ELSE IF StorageListLengthError(
                                                 Len(Elems(st.heap, corresponding_value)),
                                                 Len(Elems(st.heap, guess)))
                                     THEN Raise(st, "LengthMismatch")
                                     ELSE GuessLeaves(st, field.tag, Elems(st.heap, guess),
                                                      Elems(st.heap, corresponding_value), 1)
                                ELSE GuessLeaf(st, field.tag, guess, corresponding_value)
                   ELSE IF IsRec(st.heap, guess)
                           /\ ~HasAttr(st.heap, corresponding_variable, field.name)
                   THEN Raise(st, "UnknownField")
                   ELSE IF ~HasAttr(st.heap, corresponding_variable, field.name)
                   THEN Raise(st, "AttributeError")
                   ELSE _set_initial_guess_internal(
                            st, guess, GetAttr(st.heap, corresponding_variable, field.name),
                            Append(base_name, field.name))
         IN GuessFields(s1, initial_guess, corresponding_variable, base_name, i + 1)

_set_initial_guess_internal(st, initial_guess, corresponding_variable, base_name) ==
    LET s0 == Visit(st, initial_guess, corresponding_variable, base_name)
    IN IF IsList(st.heap, initial_guess)
       THEN IF ~IsList(st.heap, corresponding_variable)
            THEN Raise(s0, "StructureMismatch")
            ELSE IF SequenceLengthError(Len(Elems(st.heap, corresponding_variable)),
                                        Len(Elems(st.heap, initial_guess)))
            THEN Raise(s0, "LengthMismatch")
            ELSE GuessElems(s0, initial_guess, corresponding_variable, base_name, 1)
       ELSE IF ~IsRec(st.heap, initial_guess)
       THEN Raise(s0, "TypeError")
       ELSE GuessFields(s0, initial_guess, corresponding_variable, base_name, 1)

(***************************************************************************)
(* Bounds of the model                                                     *)
(***************************************************************************)
\* longest list a declared structure holds (guesses go one beyond)
MaxLen == 2
\* API calls of a session: over the full input sets, and over the whole API
MaxOps == 2
MaxSessionOps == 4

(***************************************************************************)
(* Inputs: declared structures and guesses, in the shape of the records    *)
(* the solver is used with: a record of storage leaves, and an aggregate   *)
(* that nests it singly and in lists.                                      *)
(***************************************************************************)
Leaves(variable, parameter, scalar) ==
    Rec(<<Field("variable", "Variable", variable),
          Field("parameter", "Parameter", parameter),
          Field("scalar", "none", scalar)>>)
Aggregate(aggregated, aggregated_list, other_parameter, other) ==
    Rec(<<Field("aggregated", "none", aggregated),
          Field("aggregated_list", "none", aggregated_list),
          Field("other_parameter", "Parameter", other_parameter),
          Field("other", "none", other)>>)
Generic(value) == Rec(<<Field("value", "generic", value)>>)

\* k arrays, the i-th of i+1 rows, alternately a column and a rank-1 array; with bad, the
\* last one has a row too many
Arrays(k, id, bad) ==
    List([i \in 1..k |-> Arr(IF bad /\ i = k THEN <<i + 2, 1>>
                             ELSE IF i % 2 = 1 THEN <<i + 1, 1>> ELSE <<i + 1>>, id)])
Repeat(k, t) == List([i \in 1..k |-> t])

Declared == Leaves(Arr(<<3>>, 0), Arr(<<1, 1>>, 0), Plain(7))

Structures ==
    {Leaves(Arr(<<3>>, 0), Arrays(k, 0, FALSE), Plain(7)) : k \in 0..MaxLen}
    \cup {Leaves(v, Arr(<<1, 1>>, 0), None) :
            v \in {Arr(<<3, 1>>, 0), None, Arr(<<2, 2, 2>>, 0), Arr(<<>>, 0), Plain(7)}}
    \cup {Aggregate(Declared, Repeat(k, Declared), Arr(<<2, 2>>, 0), Plain(7)) : k \in 0..MaxLen}
    \cup {Aggregate(Declared, Repeat(1, Repeat(1, Declared)), None, None),
          Aggregate(Declared, None, Arr(<<2>>, 0), Repeat(2, Plain(7))),
          Aggregate(None, None, Arr(<<2>>, 0), Repeat(1, Repeat(1, Plain(7)))),
          Generic(Arr(<<2>>, 0)),
          Plain(7)}
    \cup {Repeat(k, Declared) : k \in 0..MaxLen}
    \cup {Repeat(1, Repeat(k, Declared)) : k \in 1..MaxLen}

GuessLeaves1 ==
    {Leaves(v, None, None) :
        v \in {None, Arr(<<3>>, 1), Arr(<<3, 1>>, 2), Arr(<<2, 1>>, 1), Arr(<<>>, 1), Plain(7)}}
    \cup {Leaves(v, Arr(<<1, 1>>, 1), None) : v \in {Arr(<<3>>, 2), Arr(<<1, 3>>, 1)}}
    \cup {Leaves(Arr(<<3>>, 1), Arr(<<1>>, 2), Plain(7)), Leaves(None, None, Plain(7))}
GuessLeaves2 ==
    {Leaves(v, Arrays(n, 1, bad), None) :
        v \in {None, Arr(<<3>>, 2)}, n \in 0..(MaxLen + 1), bad \in BOOLEAN}
    \cup {Leaves(None, Arrays(n, 2, FALSE), None) : n \in 1..(MaxLen + 1)}
GuessAggregates ==
    {Aggregate(a, None, p, None) :
        a \in {None, Leaves(Arr(<<3>>, 1), None, None), Leaves(Arr(<<2>>, 1), None, None)},
        p \in {None, Arr(<<2, 2>>, 2)}}
    \cup {Aggregate(None, Repeat(n, g), p, None) :
            n \in 0..MaxLen,
            g \in {Leaves(Arr(<<3>>, 1), Arr(<<1>>, 1), None)},
            p \in {None, Arr(<<2, 1>>, 2)}}
    \cup {Aggregate(None, Repeat(1, Repeat(1, Leaves(Arr(<<3>>, 1), None, None))), None, None),
          Aggregate(None, None, None, Plain(7)),
          Aggregate(None, None, None, Repeat(2, Plain(7))),
          Aggregate(None, Leaves(Arr(<<3>>, 1), None, None), None, None)}
GuessSequences ==
    {Repeat(n, g) : n \in 0..MaxLen,
                    g \in {Leaves(Arr(<<3>>, 1), None, None), Leaves(None, Arr(<<2, 1>>, 1), None)}}
    \cup {Repeat(1, Repeat(n, Leaves(None, Arr(<<1>>, 2), None))) : n \in 0..MaxLen}
    \cup {None}
Guesses == GuessLeaves1 \cup GuessLeaves2 \cup GuessAggregates \cup GuessSequences

\* cost terms handed to add_cost
CostTerms == {1}

\* the inputs of the sessions that exercise the whole API
SessionStructures ==
    {Leaves(Arr(<<3>>, 0), Arrays(1, 0, FALSE), Plain(7)),
     Aggregate(Declared, Repeat(1, Declared), Arr(<<2, 2>>, 0), Plain(7)),
     Aggregate(Declared, None, None, None),
     Repeat(0, Declared)}
SessionGuesses ==
    {Leaves(Arr(<<3>>, 1), None, None),
     Leaves(Arr(<<3, 1>>, 2), Arrays(2, 2, FALSE), None),
     Leaves(None, Arrays(2, 1, FALSE), None),
     Aggregate(Leaves(Arr(<<3>>, 1), None, None), None, Arr(<<2, 2>>, 2), None),
     Aggregate(Leaves(None, Arr(<<1>>, 2), None), Repeat(1, Leaves(Arr(<<3>>, 2), None, None)),
               None, None),
     Aggregate(None, None, Arr(<<2, 1>>, 1), None)}

(***************************************************************************)
(* The session: the fields of OptiSolver, the store they point into, the   *)
(* structure the caller declared (input), and a record of the last API     *)
(* call (its input, outcome, solver calls and the session state it started *)
(* from).  solved tells whether some solve() call has returned without     *)
(* raising.                                                                *)
(***************************************************************************)
VARIABLES heap, input, _variables, _cost, _solver, _opti_solution, _output_solution,
          _output_cost, solved, last, nops

vars == <<heap, input, _variables, _cost, _solver, _opti_solution, _output_solution,
          _output_cost, solved, last, nops>>

Expr(id) == Leaf("expr", <<>>, id)

\* the state a call starts from
Begin ==
    [heap |-> heap, vars |-> _variables, sym |-> _solver.sym, guess |-> _solver.guess,
     calls |-> <<>>, visits |-> <<>>, err |-> "none", ret |-> None]

Record(op, in, arg, st) ==
    [op |-> op, in |-> in, arg |-> arg, err |-> st.err,
     ret |-> IF Failed(st) THEN None ELSE st.ret,
     calls |-> st.calls, visits |-> st.visits,
     vars0 |-> _variables, tree0 |-> TreeOf(heap, _variables),
     guess0 |-> _solver.guess, sym0 |-> Len(_solver.sym), solved0 |-> solved]

\* one more API call, of at most limit
Counted(limit) == nops < limit /\ nops' = nops + 1

\* a fresh OptiSolver, and a structure the caller has built
InitWith(structures) ==
    /\ \E structure \in structures :
          LET s0 == Alloc([heap |-> <<>>, ret |-> None], structure)
          IN heap = s0.heap /\ input = s0.ret
    /\ _variables = None
    /\ _cost = None
    /\ _solver = [sym |-> <<>>, guess |-> <<>>, objective |-> None, constraints |-> 0]
    /\ _opti_solution = None
    /\ _output_solution = None
    /\ _output_cost = None
    /\ solved = FALSE
    /\ nops = 0
    /\ last = [op |-> "init", in |-> None, arg |-> None, err |-> "none", ret |-> None,
               calls |-> <<>>, visits |-> <<>>, vars0 |-> None, tree0 |-> None,
               guess0 |-> <<>>, sym0 |-> 0, solved0 |-> FALSE]

\* generate_optimization_objects(input)
Generate(limit) ==
    /\ Counted(limit)
    /\ LET s1 == generate_optimization_objects(Begin, input)
       IN /\ heap' = s1.heap
          /\ _variables' = s1.vars
          /\ _solver' = [_solver EXCEPT !.sym = s1.sym, !.guess = s1.guess]
          /\ last' = Record("generate", TreeOf(heap, input), input, s1)
    /\ UNCHANGED <<input, _cost, _opti_solution, _output_solution, _output_cost, solved>>

\* set_initial_guess(initial_guess); the guess objects are the caller's and are
\* released with the call
SetInitialGuess(limit, guesses) ==
    /\ Counted(limit)
    /\ \E initial_guess \in guesses :
          LET s0 == Alloc(Begin, initial_guess)
              s1 == _set_initial_guess_internal(s0, s0.ret, _variables, <<>>)
          IN /\ _solver' = [_solver EXCEPT !.sym = s1.sym, !.guess = s1.guess]
             /\ last' = Record("set_initial_guess", initial_guess, s0.ret, s1)
    /\ UNCHANGED <<heap, input, _variables, _cost, _opti_solution, _output_solution,
                   _output_cost, solved>>

\* solve(); converged is the outcome of the external self._solver.solve()
Solve(limit) ==
    /\ Counted(limit)
    /\ \E converged \in BOOLEAN :
          LET cost == IF _cost.k = "none" THEN Expr(0) ELSE _cost
              s0 == [Begin EXCEPT !.calls = <<Call("minimize", 0, <<>>, cost.id)>>]
              s1 == IF converged
                    THEN _generate_solution_output(
                             [s0 EXCEPT !.calls = @ \o <<Call("solve", 0, <<>>, 0),
                                                         Call("value", 0, <<>>, cost.id)>>],
                             _variables)
                    ELSE Raise([s0 EXCEPT !.calls = Append(@, Call("solve", 0, <<>>, 0))],
                               "SolverError")
          IN /\ _cost' = cost
             /\ _solver' = [_solver EXCEPT !.objective = cost]
             /\ _opti_solution' = IF converged THEN Plain(nops + 1) ELSE _opti_solution
             /\ _output_cost' = IF converged THEN Val(<<>>, cost.id) ELSE _output_cost
             /\ _output_solution' = IF Failed(s1) THEN _output_solution ELSE s1.ret
             /\ heap' = s1.heap
             /\ solved' = (solved \/ ~Failed(s1))
             /\ last' = Record("solve", None, _variables, s1)
    /\ UNCHANGED <<input, _variables>>

GetValues(limit) ==
    /\ Counted(limit)
    /\ last' = Record("get_values", None, None,
                      IF _output_solution.k = "none" THEN Raise(Begin, "SolutionNotAvailable")
                      ELSE [Begin EXCEPT !.ret = _output_solution])
    /\ UNCHANGED <<heap, input, _variables, _cost, _solver, _opti_solution, _output_solution,
                   _output_cost, solved>>

GetCostValue(limit) ==
    /\ Counted(limit)
    /\ last' = Record("get_cost_value", None, None,
                      IF _output_cost.k = "none" THEN Raise(Begin, "SolutionNotAvailable")
                      ELSE [Begin EXCEPT !.ret = _output_cost])
    /\ UNCHANGED <<heap, input, _variables, _cost, _solver, _opti_solution, _output_solution,
                   _output_cost, solved>>

AddCost(limit) ==
    /\ Counted(limit)
    /\ \E input_cost \in CostTerms :
          /\ _cost' = IF _cost.k = "none" THEN Expr(input_cost) ELSE Expr(_cost.id + input_cost)
          /\ last' = Record("add_cost", Expr(input_cost), None, Begin)
    /\ UNCHANGED <<heap, input, _variables, _solver, _opti_solution, _output_solution,
                   _output_cost, solved>>

AddConstraint(limit) ==
    /\ Counted(limit)
    /\ _solver' = [_solver EXCEPT !.constraints = @ + 1]
    /\ last' = Record("add_constraint", None, None,
                      [Begin EXCEPT !.calls = <<Call("subject_to", 0, <<>>, 0)>>])
    /\ UNCHANGED <<heap, input, _variables, _cost, _opti_solution, _output_solution,
                   _output_cost, solved>>

\* sessions that declare a structure, inject guesses and solve
Init == InitWith(Structures)
Next ==
    \/ Generate(MaxOps)
    \/ SetInitialGuess(MaxOps, Guesses)
    \/ Solve(MaxOps)
Spec == Init /\ [][Next]_vars

\* sessions over the whole API
InitSession == InitWith(SessionStructures)
NextSession ==
    \/ Generate(MaxSessionOps)
    \/ SetInitialGuess(MaxSessionOps, SessionGuesses)
    \/ Solve(MaxSessionOps)
    \/ GetValues(MaxSessionOps)
    \/ GetCostValue(MaxSessionOps)
    \/ AddCost(MaxSessionOps)
    \/ AddConstraint(MaxSessionOps)
SpecSession == InitSession /\ [][NextSession]_vars

(***************************************************************************)
(* Vocabulary of the properties                                            *)
(***************************************************************************)
\* a shape in column form: rank 1 (N,) read as (N,1)
ColumnShape(sh) == IF Len(sh) = 1 THEN <<sh[1], 1>> ELSE sh
IsRole(tag) == tag \in {"Variable", "Parameter"}
IsTree(t) == t.k \in {"rec", "list"}

\* the field of record tree t called name, None when it has none
FieldOf(t, name) ==
    IF t.k = "rec" /\ \E i \in DOMAIN t.fs : t.fs[i].name = name
    THEN t.fs[CHOOSE i \in DOMAIN t.fs : t.fs[i].name = name].v
    ELSE None

\* the storage leaves of a declared tree
RECURSIVE StorageLeafCount(_)
RECURSIVE SumOver(_, _)
SumOver(seq, i) == IF i > Len(seq) THEN 0 ELSE seq[i] + SumOver(seq, i + 1)
StorageLeafCount(d) ==
    IF d.k = "rec"
    THEN SumOver([i \in DOMAIN d.fs |->
                    IF IsRole(d.fs[i].tag)
                    THEN IF d.fs[i].v.k = "list" THEN Len(d.fs[i].v.es) ELSE 1
                    ELSE StorageLeafCount(d.fs[i].v)], 1)
    ELSE IF d.k = "list" THEN SumOver([i \in DOMAIN d.es |-> StorageLeafCount(d.es[i])], 1)
    ELSE 0

\* the symbols of a symbol tree
RECURSIVE Handles(_)
Handles(t) ==
    IF t.k = "mx" THEN {t.id}
    ELSE UNION ({Handles(t.fs[i].v) : i \in DOMAIN t.fs} \cup {Handles(t.es[i]) : i \in DOMAIN t.es})

\* the storage leaves of symbol tree s paired with what guess tree g holds at the same
\* position (None where g holds nothing there), each with the role of the guess's field
RECURSIVE LeafPairs(_, _)
LeafPairs(g, s) ==
    IF g.k = "list" /\ s.k = "list"
    THEN UNION {LeafPairs(g.es[i], s.es[i]) : i \in DOMAIN g.es \cap DOMAIN s.es}
    ELSE IF g.k = "rec" /\ s.k = "rec"
    THEN UNION {LET gf == g.fs[i]
                    sv == FieldOf(s, gf.name)
                IN IF IsRole(gf.tag)
                   THEN IF sv.k = "mx"
                        THEN {[tag |-> gf.tag, g |-> gf.v, s |-> sv]}
                        ELSE IF sv.k = "list" /\ gf.v.k = "list"
                        THEN {[tag |-> gf.tag, g |-> gf.v.es[j], s |-> sv.es[j]] :
                                j \in DOMAIN gf.v.es \cap DOMAIN sv.es}
                        ELSE {}
                   ELSE LeafPairs(gf.v, sv) : i \in DOMAIN g.fs}
    ELSE {}
Supplied(g, s) == {p \in LeafPairs(g, s) : p.g.k # "none"}

\* guess tree g has the structure of symbol tree s wherever it holds something: records
\* against records with the field, sequences against sequences of the same length,
\* arrays against symbols
RECURSIVE Conforms(_, _)
Conforms(g, s) ==
    IF g.k = "list"
    THEN s.k = "list" /\ Len(g.es) = Len(s.es) /\ \A i \in DOMAIN g.es : Conforms(g.es[i], s.es[i])
    ELSE IF g.k = "rec"
    THEN /\ s.k = "rec"
         /\ \A i \in DOMAIN g.fs :
               LET gf == g.fs[i]
                   sv == FieldOf(s, gf.name)
               IN \/ gf.v.k = "none"
                  \/ /\ IsRole(gf.tag)
                     /\ \/ sv.k = "mx" /\ gf.v.k = "arr" /\ Len(gf.v.sh) > 0
                        \/ /\ sv.k = "list" /\ gf.v.k = "list" /\ Len(sv.es) = Len(gf.v.es)
                           /\ \A j \in DOMAIN sv.es :
                                 /\ sv.es[j].k = "mx"
                                 /\ gf.v.es[j].k = "arr" /\ Len(gf.v.es[j].sh) > 0
                  \/ ~IsRole(gf.tag) /\ IsTree(gf.v) /\ Conforms(gf.v, sv)
    ELSE FALSE

SetCall(p) ==
    Call(IF p.tag = "Variable" THEN "set_initial" ELSE "set_value", p.s.id, p.g.sh, p.g.id)

(***************************************************************************)
(* C1 and C8, over the whole API (SpecSession)                             *)
(***************************************************************************)
\* C1: get_values() and get_cost_value() fail with SolutionNotAvailable unless some
\* earlier solve() call of the session returned without raising.
C1_PreSolveGuard ==
    (last.op \in {"get_values", "get_cost_value"} /\ ~last.solved0)
        => last.err = "SolutionNotAvailable"

\* C8: a set_initial_guess call that returns has made exactly one solver call for each
\* storage leaf it holds a non-null guess for, set_initial under a Variable field and
\* set_value under a Parameter field, and no other call; the solver keeps, for every
\* other symbol, the value it had before the call.
C8_GuessFrame ==
    (last.op = "set_initial_guess" /\ last.err = "none") =>
        LET live == Supplied(last.in, last.tree0)
        IN /\ Len(last.calls) = Cardinality(live)
           /\ \A p \in live :
                 /\ Cardinality({i \in DOMAIN last.calls : last.calls[i].h = p.s.id}) = 1
                 /\ \E i \in DOMAIN last.calls : last.calls[i] = SetCall(p)
           /\ \A h \in DOMAIN _solver.guess :
                 IF \E p \in live : p.s.id = h
                 THEN \E p \in live : p.s.id = h /\ _solver.guess[h] = p.g.id
                 ELSE _solver.guess[h] = last.guess0[h]

\* a second guess left one symbol with the value an earlier guess gave it and set another
C8_Witness ==
    /\ last.op = "set_initial_guess" /\ last.err = "none"
    /\ \E h \in DOMAIN _solver.guess :
          /\ last.guess0[h] # 0
          /\ \A i \in DOMAIN last.calls : last.calls[i].h # h
          /\ _solver.guess[h] = last.guess0[h]
    /\ \E i \in DOMAIN last.calls :
          /\ last.calls[i].fn = "set_value"
          /\ last.guess0[last.calls[i].h] # last.calls[i].v
    /\ \E i \in DOMAIN last.in.fs : last.in.fs[i].v.k = "none"

(***************************************************************************)
(* C2 - C7, C9, C10, over the full input sets (Spec)                       *)
(***************************************************************************)
\* the guesses that hold one storage list and nothing else, against a record whose
\* field of that name is a list of symbols
OnlyStorageList(g, s, i) ==
    /\ g.k = "rec" /\ s.k = "rec"
    /\ IsRole(g.fs[i].tag) /\ g.fs[i].v.k = "list"
    /\ \A j \in DOMAIN g.fs : j # i => g.fs[j].v.k = "none"
    /\ FieldOf(s, g.fs[i].name).k = "list"
    /\ \A j \in DOMAIN FieldOf(s, g.fs[i].name).es : FieldOf(s, g.fs[i].name).es[j].k = "mx"

\* C2: a guess list of length n for a storage list of m symbols is accepted exactly when
\* n = m: with n = m and matching shapes every symbol receives its element, in order,
\* and nothing is raised; with n # m the call fails with LengthMismatch and applies no
\* element.
C2_StorageListLength ==
    last.op = "set_initial_guess" =>
        \A i \in DOMAIN last.in.fs :
            OnlyStorageList(last.in, last.tree0, i) =>
                LET gs == last.in.fs[i].v.es
                    ss == FieldOf(last.tree0, last.in.fs[i].name).es
                    tag == last.in.fs[i].tag
                IN IF Len(gs) = Len(ss)
                   THEN (\A j \in DOMAIN gs : gs[j].k = "arr" /\ ColumnShape(gs[j].sh) = ss[j].sh)
                        => /\ last.err = "none"
                           /\ last.calls = [j \in DOMAIN gs |->
                                              SetCall([tag |-> tag, g |-> gs[j], s |-> ss[j]])]
                   ELSE last.err = "LengthMismatch" /\ last.calls = <<>>

\* C3: a guess that has the structure of the symbol tree and holds, at some storage leaf,
\* an array whose column-form shape differs from the symbol's fails with ShapeMismatch,
\* and no solver call is made for a leaf of differing shape.
C3_ShapeMismatchRaised ==
    (/\ last.op = "set_initial_guess"
     /\ Conforms(last.in, last.tree0)
     /\ \E p \in Supplied(last.in, last.tree0) : ColumnShape(p.g.sh) # p.s.sh)
        => /\ last.err = "ShapeMismatch"
           /\ \A i \in DOMAIN last.calls :
                 \A p \in Supplied(last.in, last.tree0) :
                     p.s.id = last.calls[i].h => ColumnShape(p.g.sh) = p.s.sh

\* the visits made for the elements of the sequence visited at i
Kids(i) ==
    {j \in DOMAIN last.visits :
        /\ j > i
        /\ Len(last.visits[j].path) = Len(last.visits[i].path) + 1
        /\ SubSeq(last.visits[j].path, 1, Len(last.visits[i].path)) = last.visits[i].path}

\* C4: wherever the guess walk meets a sequence in the guess, the symbol tree there must
\* be a sequence (StructureMismatch otherwise) of the same length (LengthMismatch
\* otherwise), both raised before any element is visited; with equal lengths the
\* elements are visited in index order, all of them unless an element raises.
C4_SequenceLength ==
    last.op = "set_initial_guess" =>
        \A i \in DOMAIN last.visits :
            LET v == last.visits[i]
            IN v.gk = "list" =>
                  IF v.vk # "list"
                  THEN last.err = "StructureMismatch" /\ i = Len(last.visits)
                  ELSE IF v.n # v.m
                  THEN last.err = "LengthMismatch" /\ i = Len(last.visits)
                  ELSE /\ \A j \in Kids(i) :
                             last.visits[j].path[Len(last.visits[j].path)]
                                 = IndexName(Cardinality({c \in Kids(i) : c < j}))
                       /\ Cardinality(Kids(i)) <= v.n
                       /\ last.err = "none" => Cardinality(Kids(i)) = v.n

\* a nested sequence of the guess was longer or shorter than the symbol tree's
C4_Witness ==
    /\ last.op = "set_initial_guess" /\ last.err = "LengthMismatch"
    /\ \E i \in DOMAIN last.visits :
          /\ last.visits[i].gk = "list" /\ last.visits[i].vk = "list"
          /\ last.visits[i].path # <<>>
          /\ last.visits[i].n > last.visits[i].m
          /\ last.visits[i].m > 0

\* C5: generate never mutates its input: whether it returns or raises, the caller's
\* structure is deeply equal to what it was, and the returned tree shares no object
\* with it.
C5_InputNotMutated ==
    last.op = "generate" =>
        /\ TreeOf(heap, input) = last.in
        /\ last.err = "none" => Reach(heap, last.ret) \cap Reach(heap, input) = {}

\* generate has rewritten storage leaves of a nested structure and returned
C5_Witness ==
    /\ last.op = "generate" /\ last.err = "none"
    /\ Len(last.calls) >= 2
    /\ Cardinality(Reach(heap, input)) >= 2

\* symbol s stands for declared value d under a field of role tag: it was created by this
\* call, with d's shape in column form, through the primitive of the role
IsSymbolFor(s, d, tag) ==
    /\ s.k = "mx" /\ d.k = "arr"
    /\ s.sh = ColumnShape(d.sh)
    /\ s.id > last.sym0 /\ s.id - last.sym0 <= Len(last.calls)
    /\ last.calls[s.id - last.sym0]
           = Call(IF tag = "Variable" THEN "variable" ELSE "parameter", s.id, s.sh, 0)

\* symbol tree s mirrors declared tree d
RECURSIVE Mirrors(_, _)
Mirrors(d, s) ==
    IF d.k = "rec"
    THEN /\ s.k = "rec" /\ Len(s.fs) = Len(d.fs)
         /\ \A i \in DOMAIN d.fs :
               /\ s.fs[i].name = d.fs[i].name /\ s.fs[i].tag = d.fs[i].tag
               /\ IF IsRole(d.fs[i].tag)
                  THEN IF d.fs[i].v.k = "list"
                       THEN /\ s.fs[i].v.k = "list" /\ Len(s.fs[i].v.es) = Len(d.fs[i].v.es)
                            /\ \A j \in DOMAIN d.fs[i].v.es :
                                  IsSymbolFor(s.fs[i].v.es[j], d.fs[i].v.es[j], d.fs[i].tag)
                       ELSE IsSymbolFor(s.fs[i].v, d.fs[i].v, d.fs[i].tag)
                  ELSE Mirrors(d.fs[i].v, s.fs[i].v)
    ELSE IF d.k = "list"
    THEN /\ s.k = "list" /\ Len(s.es) = Len(d.es)
         /\ \A i \in DOMAIN d.es : Mirrors(d.es[i], s.es[i])
    ELSE s = d

\* C6: generate returns a tree with the fields and list lengths of its input, in which
\* every storage value has become one symbol (a list of k values a list of k symbols, in
\* order), created with the value's shape in column form through the primitive of the
\* field's role; it creates as many symbols as the input has storage leaves.
C6_SymbolTreeMirrorsInput ==
    (last.op = "generate" /\ last.err = "none") =>
        /\ Mirrors(last.in, TreeOf(heap, last.ret))
        /\ Len(last.calls) = StorageLeafCount(last.in)
        /\ Cardinality(Handles(TreeOf(heap, last.ret))) = StorageLeafCount(last.in)

\* generate has returned symbols for a storage list and for a rank-1 value
C6_Witness ==
    /\ last.op = "generate" /\ last.err = "none"
    /\ \E i \in DOMAIN last.in.fs :
          /\ IsRole(last.in.fs[i].tag) /\ last.in.fs[i].v.k = "list"
          /\ Len(last.in.fs[i].v.es) >= 2
    /\ \E i \in DOMAIN last.in.fs : last.in.fs[i].v.k = "arr" /\ Len(last.in.fs[i].v.sh) = 1

\* solution tree v holds the values of symbol tree s
RECURSIVE Solves(_, _)
Solves(s, v) ==
    IF s.k = "rec"
    THEN /\ v.k = "rec" /\ Len(v.fs) = Len(s.fs)
         /\ \A i \in DOMAIN s.fs :
               /\ v.fs[i].name = s.fs[i].name /\ v.fs[i].tag = s.fs[i].tag
               /\ Solves(s.fs[i].v, v.fs[i].v)
    ELSE IF s.k = "list"
    THEN /\ v.k = "list" /\ Len(v.es) = Len(s.es)
         /\ \A i \in DOMAIN s.es : Solves(s.es[i], v.es[i])
    ELSE IF s.k = "mx" THEN v = Val(s.sh, s.id)
    ELSE v = s

\* the solver calls of the extraction walk: those after minimize, solve and the read of
\* the cost
WalkCalls == SubSeq(last.calls, 4, Len(last.calls))

\* C7: the tree solve() extracts has the fields, list lengths and order of the symbol
\* tree, every symbol replaced by the solver's value of that symbol; the walk leaves the
\* symbol tree as it was and makes only value reads, one per symbol.
C7_SolutionMirrorsSymbols ==
    (last.op = "solve" /\ last.err = "none") =>
        /\ Solves(last.tree0, TreeOf(heap, last.ret))
        /\ TreeOf(heap, _variables) = last.tree0
        /\ \A i \in DOMAIN WalkCalls :
              WalkCalls[i].fn = "value" /\ WalkCalls[i].h \in Handles(last.tree0)
        /\ Len(WalkCalls) = Cardinality(Handles(last.tree0))

\* solve has extracted a nested tree with several symbols
C7_Witness ==
    /\ last.op = "solve" /\ last.err = "none"
    /\ Cardinality(Handles(last.tree0)) >= 3
    /\ Cardinality(Reach(heap, _variables)) >= 3

\* the plain fields of tree b are those of tree a
RECURSIVE PlainKept(_, _)
PlainKept(a, b) ==
    IF a.k = "rec"
    THEN \A i \in DOMAIN a.fs :
            IF IsRole(a.fs[i].tag) THEN TRUE
            ELSE IF a.fs[i].v.k = "rec" THEN PlainKept(a.fs[i].v, FieldOf(b, a.fs[i].name))
            ELSE IF a.fs[i].v.k = "list" /\ \E j \in DOMAIN a.fs[i].v.es : IsTree(a.fs[i].v.es[j])
            THEN PlainKept(a.fs[i].v, FieldOf(b, a.fs[i].name))
            ELSE FieldOf(b, a.fs[i].name) = a.fs[i].v
    ELSE IF a.k = "list"
    THEN \A i \in DOMAIN a.es : i \in DOMAIN b.es /\ PlainKept(a.es[i], b.es[i])
    ELSE TRUE

\* C9: plain fields are never touched by the walks: generate and extraction return them
\* equal to the input's, and the guess walk never enters a plain value of the guess, nor
\* raises or calls the solver because of one.
C9_PlainUntouched ==
    /\ (last.op = "generate" /\ last.err = "none") => PlainKept(last.in, TreeOf(heap, last.ret))
    /\ (last.op = "solve" /\ last.err = "none") => PlainKept(last.tree0, TreeOf(heap, last.ret))
    /\ last.op = "set_initial_guess" =>
          \A i \in DOMAIN last.visits :
              last.visits[i].path # <<>> => last.visits[i].gk # "plain"

\* C10: after a generate call that returns, the registered symbol tree is the whole tree
\* that call returned, whatever the recursive calls registered on the way.
C10_RegistersWholeTree ==
    (last.op = "generate" /\ last.err = "none") =>
        /\ _variables = last.ret
        /\ Mirrors(last.in, TreeOf(heap, _variables))

\* generate has returned for a structure that nests records in a list
C10_Witness ==
    /\ last.op = "generate" /\ last.err = "none"
    /\ \E i \in DOMAIN last.in.fs :
          /\ last.in.fs[i].v.k = "list"
          /\ \E j \in DOMAIN last.in.fs[i].v.es : last.in.fs[i].v.es[j].k = "rec"

====
